---- MODULE Spec2Model ----
(***************************************************************************)
(* Model of the two TCG plugins of this repository:                        *)
(*   - the hot-block plugin (TBExecCount records, whole-run report),       *)
(*   - the basic-block-vector (BBV) plugin (BBExecutionFrequency records,  *)
(*     interval slicing, 'T' lines and 'F' lines).                         *)
(* Each plugin is a separate shared object with its own                    *)
(* qemu_plugin_install; the variable "loaded" says which one this run      *)
(* installed.  Callbacks are atomic steps here (one vCPU).                 *)
(***************************************************************************)
EXTENDS Integers, Sequences, FiniteSets, TLC

\* ---- bounds of the model -------------------------------------------------
NumPCs      == 2    \* distinct block start addresses the guest can translate
MaxInsns    == 2    \* largest n_insns the translator reports
MaxInterval == 2    \* largest interval-size option tried
MaxExecs    == 3    \* execution callbacks per run
MaxTrans    == 2    \* translation callbacks per run
WordBits    == 16   \* model width of uint64_t (scaled down from 64)

Word == 2 ^ WordBits
PCs == 1 .. NumPCs
NULL == "NULL"

\* ---- uint64_t arithmetic -------------------------------------------------
Add64(a, b) == (a + b) % Word
Sub64(a, b) == (a - b + Word) % Word
\* printf("%ld") of a uint64_t: the value is read back as a signed long
FmtLd(x) == IF x >= Word \div 2 THEN x - Word ELSE x

RECURSIVE SumSet(_)
SumSet(S) == IF S = {} THEN 0
             ELSE LET x == CHOOSE y \in S : TRUE IN x[2] + SumSet(S \ {x})

RECURSIVE SumSeq(_)
SumSeq(s) == IF s = <<>> THEN 0 ELSE Head(s) + SumSeq(Tail(s))

Perms(S) == { p \in [1 .. Cardinality(S) -> S] :
                \A i, j \in 1 .. Cardinality(S) : i # j => p[i] # p[j] }

\* ---- what the emulator hands to vcpu_tb_trans ------------------------------
\* qemu_plugin_insn_symbol of the first instruction: may be NULL
qemu_plugin_insn_symbol(pc) == IF pc % 2 = 0 THEN "fn" ELSE NULL
\* instruction i of the tb of n instructions found at pc (the code at an
\* address may change: self-modifying code)
qemu_plugin_tb_get_insn(pc, n, i) ==
    [size  |-> IF (i + n) % 2 = 0 THEN 4 ELSE 2,
     data  |-> pc * 100 + n * 10 + i,
     disas |-> <<pc, n, i>>]
TBs == [vaddr : PCs, n_insns : 1 .. MaxInsns]

VARIABLES
    loaded,                 \* which plugin qemu_plugin_install installed
    phase,                  \* "run", then "exit" once plugin_exit has run
    hb_blocks,              \* hot-block plugin: blocks (hash -> TBExecCount)
    hb_report,              \* hot-block plugin: text handed to qemu_plugin_outs
    blocks,                 \* BBV plugin: blocks (pc -> BBExecutionFrequency)
    insns_interval_length,
    bb_out,                 \* TRUE iff the FILE* is non-NULL
    pc_out,
    insns_executed,
    next_tbid,
    bb_file,                \* lines written to bb_out, oldest first
    pc_file,                \* lines written to pc_out
    fault,                  \* the process died in plugin_exit
    n_trans,                \* per start address: translation callbacks so far
    n_exec,                 \* per start address: execution callbacks so far
    tb_order,               \* BBV plugin: start addresses in order of first
                            \* translation
    tb_changed,             \* some re-translation reported an instruction count
                            \* other than the one stored at first translation
    hb_values_order,        \* hot-block plugin: the order in which the table,
                            \* as it stands, hands out its values, as start
                            \* addresses (NULL until something iterates it)
    hb_report_again,        \* hot-block plugin: what a second run of plugin_exit
                            \* hands to qemu_plugin_outs
    dtso_ena,               \* prctl: env->dtso_ena
    cpu_cfg,                \* prctl: cpu->cfg (ext_ssdtso, ext_ztso)
    prctl_log,              \* prctl: the calls made so far and what they returned
    mt_heap,                \* BBV plugin, several vCPUs: the g_new0 records
    mt_table,               \* BBV plugin, several vCPUs: blocks (pc -> record)
    mt_tbs,                 \* BBV plugin, several vCPUs: the records some tb
                            \* passes to vcpu_tb_exec as udata
    mt_cpu,                 \* per vCPU: where it is inside a callback
    mt_done                 \* BBV plugin, several vCPUs: callbacks entered so
                            \* far, as <<translations per pc, executed insns>>

vars == <<loaded, phase, hb_blocks, hb_report, blocks, insns_interval_length,
          bb_out, pc_out, insns_executed, next_tbid, bb_file, pc_file, fault,
          n_trans, n_exec, tb_order, tb_changed, hb_values_order,
          hb_report_again, dtso_ena, cpu_cfg, prctl_log, mt_heap, mt_table, mt_tbs, mt_cpu,
          mt_done>>

hb_again == <<hb_values_order, hb_report_again>>
prctl_vars == <<dtso_ena, cpu_cfg, prctl_log>>
mt_vars == <<mt_heap, mt_table, mt_tbs, mt_cpu, mt_done>>
\* what the callbacks of one plugin on one vCPU never touch
other_vars == <<prctl_vars, mt_vars>>

hb_vars  == <<hb_blocks, hb_report>>
bbv_cfg  == <<insns_interval_length, bb_out, pc_out>>
bbv_vars == <<blocks, insns_executed, next_tbid, bb_file, pc_file, fault>>

Empty == [x \in {} |-> 0]
TotalExecs == SumSeq([i \in 1 .. NumPCs |-> n_exec[i]])
TotalTrans == SumSeq([i \in 1 .. NumPCs |-> n_trans[i]])

\* ---- qemu_plugin_install ---------------------------------------------------
\* the initializer of insns_interval_length, 100000000, in the model's word:
\* more than a bounded run executes
DefaultIntervalLength == 100000000 % Word

\* hot-block plugin: no options, empty table (the BBV plugin's globals are not
\* part of it and stay as initialized)
hb_qemu_plugin_install ==
    /\ loaded = "hotblocks"
    /\ insns_interval_length = DefaultIntervalLength
    /\ bb_out = FALSE
    /\ pc_out = FALSE

\* BBV plugin: the options decide the two files and the interval length;
\* g_ascii_strtoull accepts 0 too
bbv_qemu_plugin_install ==
    /\ loaded = "bbv"
    /\ insns_interval_length \in (0 .. MaxInterval) \cup {DefaultIntervalLength}
    /\ bb_out \in BOOLEAN
    /\ pc_out \in BOOLEAN

\* the state once qemu_plugin_install has returned 0
Installed ==
    /\ phase = "run"
    /\ hb_blocks = Empty
    /\ hb_report = NULL
    /\ blocks = Empty
    /\ insns_executed = 0
    /\ next_tbid = 0
    /\ bb_file = <<>>
    /\ pc_file = <<>>
    /\ fault = FALSE
    /\ n_trans = [pc \in PCs |-> 0]
    /\ n_exec = [pc \in PCs |-> 0]
    /\ tb_order = <<>>
    /\ tb_changed = FALSE
    /\ hb_values_order = NULL
    /\ hb_report_again = NULL

\* the prctl state of a process that makes no prctl call
NoPrctl ==
    /\ dtso_ena = FALSE
    /\ cpu_cfg = [ext_ssdtso |-> FALSE, ext_ztso |-> FALSE]
    /\ prctl_log = <<>>

\* the several-vCPU view is not in use
NoMt ==
    /\ mt_heap = <<>>
    /\ mt_table = Empty
    /\ mt_tbs = {}
    /\ mt_cpu = Empty
    /\ mt_done = <<>>

InitHB == hb_qemu_plugin_install /\ Installed /\ NoPrctl /\ NoMt
InitBBV == bbv_qemu_plugin_install /\ Installed /\ NoPrctl /\ NoMt
Init == InitHB \/ InitBBV

\* ---- BBV plugin ------------------------------------------------------------
\* vcpu_tb_trans: the record made for a start address not seen before
\* (g_new0 zeroes offset_from_symbol, which nothing sets)
bbv_new_info(tb, tbid) ==
    [tbid |-> tbid, tb_pc |-> tb.vaddr, n_insns |-> tb.n_insns,
     tb_dynamic_count |-> 0, symbol |-> qemu_plugin_insn_symbol(tb.vaddr),
     offset_from_symbol |-> 0]

\* mutant of bbv_tb_trans_result: "info->tbid = next_tbid" without the ++
bbv_tb_trans_result_no_incr(blks, tbid, tb) ==
    IF tb.vaddr \in DOMAIN blks
    THEN [blocks |-> blks, next_tbid |-> tbid]
    ELSE [blocks |-> [pc \in DOMAIN blks \cup {tb.vaddr} |->
                        IF pc = tb.vaddr THEN bbv_new_info(tb, tbid)
                        ELSE blks[pc]],
          next_tbid |-> tbid]

\* vcpu_tb_trans: the table and next_tbid after the callback
bbv_tb_trans_result(blks, tbid, tb) ==
    IF tb.vaddr \in DOMAIN blks
    THEN [blocks |-> blks, next_tbid |-> tbid]
    ELSE [blocks |-> [pc \in DOMAIN blks \cup {tb.vaddr} |->
                        IF pc = tb.vaddr THEN bbv_new_info(tb, tbid)
                        ELSE blks[pc]],
          next_tbid |-> Add64(tbid, 1)]

bbv_vcpu_tb_trans(tb) ==
    /\ loaded = "bbv" /\ phase = "run"
    /\ TotalTrans < MaxTrans
    /\ LET r == bbv_tb_trans_result(blocks, next_tbid, tb)
       IN /\ blocks' = r.blocks
          /\ next_tbid' = r.next_tbid
    /\ n_trans' = [n_trans EXCEPT ![tb.vaddr] = @ + 1]
    /\ tb_order' = IF tb.vaddr \in DOMAIN blocks THEN tb_order
                   ELSE Append(tb_order, tb.vaddr)
    /\ tb_changed' = (tb_changed \/ (tb.vaddr \in DOMAIN blocks
                                      /\ blocks[tb.vaddr].n_insns # tb.n_insns))
    /\ UNCHANGED <<other_vars, hb_again, loaded, phase, hb_vars, bbv_cfg, insns_executed, bb_file,
                   pc_file, fault, n_exec>>

\* print_bb_freq over the whole table: the ":tbid:count " pairs of one line
bbv_line(blks) ==
    { <<FmtLd(blks[pc].tbid), FmtLd(blks[pc].tb_dynamic_count)>> :
        pc \in { q \in DOMAIN blks : blks[q].tb_dynamic_count # 0 } }

\* mutant of handle_interval_expiry: print_bb_freq without the reset of
\* tb_dynamic_count
handle_interval_expiry_no_reset(blks, file, out) ==
    IF ~out
    THEN [blocks |-> blks, file |-> file]
    ELSE [blocks |-> blks, file |-> Append(file, bbv_line(blks))]

\* handle_interval_expiry: nothing at all without bb_out, else one 'T' line
\* and every printed count reset
handle_interval_expiry(blks, file, out) ==
    IF ~out
    THEN [blocks |-> blks, file |-> file]
    ELSE [blocks |-> [pc \in DOMAIN blks |->
                        [blks[pc] EXCEPT !.tb_dynamic_count = 0]],
          file   |-> Append(file, bbv_line(blks))]

\* mutant of tb_exec_counts: without "info->tb_dynamic_count -= insns_executed"
tb_exec_counts_no_split(executed, count, n, len) ==
    LET e1 == Add64(executed, n)
        c1 == Add64(count, n)
    IN IF e1 > len
       THEN LET e2 == Sub64(e1, len)
            IN [expired |-> TRUE, executed |-> e2, before |-> c1, after |-> e2]
       ELSE [expired |-> FALSE, executed |-> e1, before |-> c1, after |-> c1]

\* mutant of tb_exec_counts: without "info->tb_dynamic_count = insns_executed"
\* after the expiry
tb_exec_counts_no_carry(executed, count, n, len) ==
    LET e1 == Add64(executed, n)
        c1 == Add64(count, n)
    IN IF e1 > len
       THEN LET e2 == Sub64(e1, len)
            IN [expired |-> TRUE, executed |-> e2,
                before |-> Sub64(c1, e2), after |-> 0]
       ELSE [expired |-> FALSE, executed |-> e1, before |-> c1, after |-> c1]

\* vcpu_tb_exec: the arithmetic on the running total and the block's count
\* (before: the count print_bb_freq sees, after: the count left in the block)
tb_exec_counts(executed, count, n, len) ==
    LET e1 == Add64(executed, n)
        c1 == Add64(count, n)
    IN IF e1 > len
       THEN LET e2 == Sub64(e1, len)
            IN [expired |-> TRUE, executed |-> e2,
                before |-> Sub64(c1, e2), after |-> e2]
       ELSE [expired |-> FALSE, executed |-> e1, before |-> c1, after |-> c1]

bbv_vcpu_tb_exec(pc) ==
    /\ loaded = "bbv" /\ phase = "run"
    /\ pc \in DOMAIN blocks
    /\ TotalExecs < MaxExecs
    /\ LET info == blocks[pc]
           r == tb_exec_counts(insns_executed, info.tb_dynamic_count,
                               info.n_insns, insns_interval_length)
           pre == [blocks EXCEPT ![pc].tb_dynamic_count = r.before]
           h == IF r.expired THEN handle_interval_expiry(pre, bb_file, bb_out)
                ELSE [blocks |-> pre, file |-> bb_file]
       IN /\ insns_executed' = r.executed
          /\ blocks' = [h.blocks EXCEPT ![pc].tb_dynamic_count = r.after]
          /\ bb_file' = h.file
    /\ n_exec' = [n_exec EXCEPT ![pc] = @ + 1]
    /\ UNCHANGED <<other_vars, hb_again, loaded, phase, hb_vars, bbv_cfg, next_tbid, pc_file, fault,
                   n_trans, tb_order, tb_changed>>

\* ---- glib: g_hash_table_get_values and g_list_sort ---------------------------
\* the values of the table as a list, in the table's (unspecified) order
g_hash_table_get_values(blks) ==
    { [i \in 1 .. Cardinality(DOMAIN blks) |-> blks[p[i]]] :
        p \in Perms(DOMAIN blks) }

Mul64(a, b) == (a * b) % Word

cmp_tbid(a, b) == FmtLd(Sub64(a.tbid, b.tbid))

\* mutant of cmp_dynamic_insncount: ascending
cmp_dynamic_insncount_ascending(a, b) ==
    IF Mul64(a.exec_count, a.n_insns) < Mul64(b.exec_count, b.n_insns)
    THEN -1 ELSE 1

cmp_dynamic_insncount(a, b) ==
    IF Mul64(a.exec_count, a.n_insns) > Mul64(b.exec_count, b.n_insns)
    THEN -1 ELSE 1

cmp_dynamic_execcount(a, b) == IF a.exec_count > b.exec_count THEN -1 ELSE 1

compare(func, a, b) ==
    CASE func = "cmp_tbid" -> cmp_tbid(a, b)
      [] func = "cmp_dynamic_insncount" -> cmp_dynamic_insncount(a, b)
      [] func = "cmp_dynamic_execcount" -> cmp_dynamic_execcount(a, b)

\* g_list_sort_merge: the head of l1 goes first when compare(l1, l2) <= 0
RECURSIVE g_list_sort_merge(_, _, _)
g_list_sort_merge(l1, l2, func) ==
    IF l1 = <<>> THEN l2
    ELSE IF l2 = <<>> THEN l1
    ELSE IF compare(func, Head(l1), Head(l2)) <= 0
         THEN <<Head(l1)>> \o g_list_sort_merge(Tail(l1), l2, func)
         ELSE <<Head(l2)>> \o g_list_sort_merge(l1, Tail(l2), func)

\* g_list_sort: merge sort, the first half holding Len \div 2 elements
RECURSIVE g_list_sort(_, _)
g_list_sort(list, func) ==
    IF Len(list) <= 1 THEN list
    ELSE LET h == Len(list) \div 2
         IN g_list_sort_merge(g_list_sort(SubSeq(list, 1, h), func),
                              g_list_sort(SubSeq(list, h + 1, Len(list)), func),
                              func)

\* ---- BBV plugin: plugin_exit ------------------------------------------------
\* one "F:%ld:%lx:%s" line
bbv_pc_line(info) ==
    [tbid |-> FmtLd(info.tbid), tb_pc |-> info.tb_pc,
     symbol |-> IF info.symbol # NULL THEN info.symbol ELSE ""]

\* for (e = it; e->next; e = e->next): the lines of a non-empty list
bbv_pc_lines(it) == [i \in 1 .. Len(it) - 1 |-> bbv_pc_line(it[i])]

bbv_plugin_exit ==
    /\ loaded = "bbv" /\ phase = "run"
    /\ LET h == handle_interval_expiry(blocks, bb_file, bb_out)
       IN /\ blocks' = h.blocks
          /\ \E blocks_values \in g_hash_table_get_values(h.blocks) :
               IF pc_out
               THEN LET it == g_list_sort(blocks_values, "cmp_tbid")
                    IN IF it = <<>>
                       THEN \* e->next is read through a NULL e: the process
                            \* takes SIGSEGV before fclose (what stdio still
                            \* buffers is lost), or the read yields NULL
                            /\ fault' \in BOOLEAN
                            /\ bb_file' = IF fault' THEN bb_file ELSE h.file
                            /\ pc_file' = pc_file
                       ELSE /\ fault' = FALSE
                            /\ bb_file' = h.file
                            /\ pc_file' = pc_file \o bbv_pc_lines(it)
               ELSE /\ bb_file' = h.file
                    /\ UNCHANGED <<fault, pc_file>>
    /\ phase' = "exit"
    /\ UNCHANGED <<other_vars, hb_again, loaded, hb_vars, bbv_cfg, insns_executed, next_tbid,
                   n_trans, n_exec, tb_order, tb_changed>>

\* ---- hot-block plugin --------------------------------------------------------
\* vcpu_tb_trans: the instruction snapshot taken at first translation
hb_insns(tb) ==
    [i \in 1 .. tb.n_insns |->
        LET insn == qemu_plugin_tb_get_insn(tb.vaddr, tb.n_insns, i - 1)
        IN [len |-> insn.size, data |-> insn.data, disasm |-> insn.disas]]

\* mutant of hb_new_cnt: without "cnt->trans_count = 1"
hb_new_cnt_zero_trans(tb) ==
    [start_addr |-> tb.vaddr, exec_count |-> 0, trans_count |-> 0,
     n_insns |-> tb.n_insns, insns |-> hb_insns(tb),
     symbol |-> qemu_plugin_insn_symbol(tb.vaddr)]

\* vcpu_tb_trans: g_new0 record of a start address not seen before
hb_new_cnt(tb) ==
    [start_addr |-> tb.vaddr, exec_count |-> 0, trans_count |-> 1,
     n_insns |-> tb.n_insns, insns |-> hb_insns(tb),
     symbol |-> qemu_plugin_insn_symbol(tb.vaddr)]

\* mutant of hb_retranslate: the record takes the new instructions
hb_retranslate_refresh(cnt, tb) ==
    [cnt EXCEPT !.trans_count = Add64(@, 1), !.n_insns = tb.n_insns,
                !.insns = hb_insns(tb)]

\* vcpu_tb_trans: a start address already in the table
hb_retranslate(cnt, tb) == [cnt EXCEPT !.trans_count = Add64(@, 1)]

\* vcpu_tb_trans: the table after the callback (hash = pc)
hb_tb_trans_result(blks, tb) ==
    IF tb.vaddr \in DOMAIN blks
    THEN [blks EXCEPT ![tb.vaddr] = hb_retranslate(@, tb)]
    ELSE [pc \in DOMAIN blks \cup {tb.vaddr} |->
            IF pc = tb.vaddr THEN hb_new_cnt(tb) ELSE blks[pc]]

hb_vcpu_tb_trans(tb) ==
    /\ loaded = "hotblocks" /\ phase = "run"
    /\ TotalTrans < MaxTrans
    /\ hb_blocks' = hb_tb_trans_result(hb_blocks, tb)
    /\ n_trans' = [n_trans EXCEPT ![tb.vaddr] = @ + 1]
    /\ tb_changed' = (tb_changed \/ (tb.vaddr \in DOMAIN hb_blocks
                                      /\ hb_blocks[tb.vaddr].n_insns # tb.n_insns))
    /\ UNCHANGED <<other_vars, hb_again, loaded, phase, hb_report, bbv_cfg, bbv_vars, n_exec,
                   tb_order>>

\* the inline QEMU_PLUGIN_INLINE_ADD_U64 of 1 to cnt->exec_count
hb_inline_add(cnt) == [cnt EXCEPT !.exec_count = Add64(@, 1)]

hb_tb_exec(pc) ==
    /\ loaded = "hotblocks" /\ phase = "run"
    /\ pc \in DOMAIN hb_blocks
    /\ TotalExecs < MaxExecs
    /\ hb_blocks' = [hb_blocks EXCEPT ![pc] = hb_inline_add(@)]
    /\ n_exec' = [n_exec EXCEPT ![pc] = @ + 1]
    /\ UNCHANGED <<other_vars, hb_again, loaded, phase, hb_report, bbv_cfg, bbv_vars, n_trans,
                   tb_order, tb_changed>>

\* plugin_exit: the records the loops "for (e = it; e->next; e = e->next)" visit
hb_visited(it) == SubSeq(it, 1, Len(it) - 1)

\* plugin_exit: total_insn_executed
hb_total(it) ==
    LET v == hb_visited(it)
        RECURSIVE acc(_)
        acc(i) == IF i = 0 THEN 0
                  ELSE Add64(acc(i - 1), Mul64(v[i].n_insns, v[i].exec_count))
    IN acc(Len(v))

\* plugin_exit: the rows of "## Blocks (by dynamic instructions)"
hb_rows_insns(it, total) ==
    LET v == hb_visited(it)
    IN [i \in 1 .. Len(v) |->
          [start_addr |-> v[i].start_addr,
           count      |-> FmtLd(Mul64(v[i].n_insns, v[i].exec_count)),
           pct_num    |-> Mul64(v[i].n_insns, v[i].exec_count) * 100,
           pct_den    |-> total,
           symbol     |-> IF v[i].symbol # NULL THEN v[i].symbol ELSE "",
           disasm     |-> [k \in 1 .. v[i].n_insns |-> v[i].insns[k].disasm]]]

\* plugin_exit: the rows of "## Blocks (by dynamic invocations)"
hb_rows_execs(it, total) ==
    LET v == hb_visited(it)
    IN [i \in 1 .. Len(v) |->
          [start_addr |-> v[i].start_addr,
           count      |-> FmtLd(v[i].exec_count),
           pct_num    |-> v[i].exec_count * 100,
           pct_den    |-> total,
           symbol     |-> IF v[i].symbol # NULL THEN v[i].symbol ELSE ""]]

\* plugin_exit: the whole report string
hb_make_report(blks, counts) ==
    LET it1 == g_list_sort(counts, "cmp_dynamic_insncount")
        total == hb_total(it1)
        it2 == g_list_sort(counts, "cmp_dynamic_execcount")
    IN [collected |-> Cardinality(DOMAIN blks),
        by_insns  |-> hb_rows_insns(it1, total),
        by_execs  |-> hb_rows_execs(it2, total),
        dynamic_instruction_count |-> FmtLd(total),
        blocks_executed |-> Cardinality(DOMAIN blks)]

\* mutant of hb_after_report: the report consumes the counters, as
\* print_bb_freq does
hb_after_report_reset(blks) ==
    [pc \in DOMAIN blks |-> [blks[pc] EXCEPT !.exec_count = 0]]

\* plugin_exit: the table once the report is made (the loops only read the
\* records, g_list_free frees the lists and not their data)
hb_after_report(blks) == blks

hb_plugin_exit ==
    /\ loaded = "hotblocks" /\ phase = "run"
    /\ \E counts \in g_hash_table_get_values(hb_blocks) :
         /\ hb_values_order' = [i \in 1 .. Len(counts) |-> counts[i].start_addr]
         /\ hb_report' = hb_make_report(hb_blocks, counts)
    /\ hb_blocks' = hb_after_report(hb_blocks)
    /\ phase' = "exit"
    /\ UNCHANGED <<other_vars, loaded, hb_report_again, bbv_cfg, bbv_vars,
                   n_trans, n_exec, tb_order, tb_changed>>

\* the values of a table nothing was inserted into or removed from since it
\* was last iterated: the same records, in the same order
g_hash_table_get_values_again(blks, order) ==
    [i \in 1 .. Len(order) |-> blks[order[i]]]

\* plugin_exit run once more over the table the first run left
hb_plugin_exit_again ==
    /\ loaded = "hotblocks" /\ phase = "exit"
    /\ hb_report_again' =
           hb_make_report(hb_blocks,
                          g_hash_table_get_values_again(hb_blocks, hb_values_order))
    /\ hb_blocks' = hb_after_report(hb_blocks)
    /\ phase' = "exit2"
    /\ UNCHANGED <<other_vars, loaded, hb_report, hb_values_order, bbv_cfg,
                   bbv_vars, n_trans, n_exec, tb_order, tb_changed>>

\* ---- hot-block plugin: the report over the tables a run can leave -----------
\* start addresses of the tables the report is run over
ReportPCs == 1 .. NumPCs + 1

\* the record of tb after x executions of it
hb_after_execs(tb, x) == [hb_new_cnt(tb) EXCEPT !.exec_count = x]

\* executions of one block before the shutdown
ReportMaxExecs == 2

\* the table at shutdown: any set of blocks, each of 1 .. MaxInsns
\* instructions, translated once and executed 0 .. ReportMaxExecs times
IsReportStore(blks) ==
    \E S \in SUBSET ReportPCs :
        \E c \in [S -> (1 .. MaxInsns) \X (0 .. ReportMaxExecs)] :
            blks = [pc \in S |->
                      hb_after_execs([vaddr |-> pc, n_insns |-> c[pc][1]],
                                     c[pc][2])]

InitHBReport ==
    /\ hb_qemu_plugin_install
    /\ phase = "run"
    /\ IsReportStore(hb_blocks)
    /\ hb_report = NULL
    /\ blocks = Empty
    /\ insns_executed = 0
    /\ next_tbid = 0
    /\ bb_file = <<>>
    /\ pc_file = <<>>
    /\ fault = FALSE
    /\ n_trans = [pc \in ReportPCs |-> IF pc \in DOMAIN hb_blocks THEN 1 ELSE 0]
    /\ n_exec = [pc \in ReportPCs |->
                   IF pc \in DOMAIN hb_blocks THEN hb_blocks[pc].exec_count ELSE 0]
    /\ tb_order = <<>>
    /\ tb_changed = FALSE
    /\ hb_values_order = NULL
    /\ hb_report_again = NULL
    /\ NoPrctl /\ NoMt

NextHBReport == hb_plugin_exit \/ hb_plugin_exit_again

\* ---- BBV plugin: callbacks of several vCPUs ---------------------------------
\* vcpu_tb_trans and vcpu_tb_exec take no lock and use plain loads and stores:
\* a callback is modelled as the sequence of its accesses to shared memory,
\* and the callbacks of the vCPUs interleave between these accesses.
NumCPUs == 2
CPUs == 1 .. NumCPUs

\* a vCPU outside the plugin's callbacks
Idle == [at |-> "idle", info |-> 0, reg |-> 0, tb |-> NULL]

\* qemu_plugin_install with bb-out-file and an interval-size of at least 1
InitBBVMT ==
    /\ loaded = "bbv"
    /\ insns_interval_length \in 1 .. MaxInterval
    /\ bb_out = TRUE
    /\ pc_out = FALSE
    /\ Installed /\ NoPrctl
    /\ mt_heap = <<>>
    /\ mt_table = Empty
    /\ mt_tbs = {}
    /\ mt_cpu = [c \in CPUs |-> Idle]
    /\ mt_done = [trans |-> 0, execs |-> 0, insns |-> 0]

\* what no callback of the BBV plugin writes
mt_frame == <<loaded, hb_vars, hb_again, bbv_cfg, blocks, pc_file, fault,
              n_trans, n_exec, tb_order, tb_changed, prctl_vars>>

\* the records g_hash_table_foreach visits: those the table points to
mt_table_view(heap, table) == [pc \in DOMAIN table |-> heap[table[pc]]]

\* handle_interval_expiry over the table: the line, and the heap with the
\* visited records reset
mt_handle_interval_expiry(heap, table, file, out) ==
    LET h == handle_interval_expiry(mt_table_view(heap, table), file, out)
    IN [heap |-> [i \in DOMAIN heap |->
                    IF \E pc \in DOMAIN table : table[pc] = i
                    THEN h.blocks[heap[i].tb_pc] ELSE heap[i]],
        file |-> h.file]

\* vcpu_tb_exec, "insns_executed += info->n_insns": the load and the addition
mt_exec_load_total(c, i) ==
    /\ loaded = "bbv" /\ phase = "run"
    /\ mt_cpu[c].at = "idle"
    /\ i \in mt_tbs
    /\ mt_done.execs < MaxExecs
    /\ mt_cpu' = [mt_cpu EXCEPT ![c] =
                    [Idle EXCEPT !.at = "exec_store_total", !.info = i,
                                 !.reg = Add64(insns_executed, mt_heap[i].n_insns)]]
    /\ mt_done' = [mt_done EXCEPT !.execs = @ + 1,
                                  !.insns = @ + mt_heap[i].n_insns]
    /\ UNCHANGED <<mt_frame, phase, insns_executed, next_tbid, bb_file,
                   mt_heap, mt_table, mt_tbs>>

\* vcpu_tb_exec, "insns_executed += info->n_insns": the store
mt_exec_store_total(c) ==
    /\ mt_cpu[c].at = "exec_store_total"
    /\ insns_executed' = mt_cpu[c].reg
    /\ mt_cpu' = [mt_cpu EXCEPT ![c].at = "exec_load_count"]
    /\ UNCHANGED <<mt_frame, phase, next_tbid, bb_file, mt_heap, mt_table,
                   mt_tbs, mt_done>>

\* vcpu_tb_exec, "info->tb_dynamic_count += info->n_insns": the load and the
\* addition
mt_exec_load_count(c) ==
    /\ mt_cpu[c].at = "exec_load_count"
    /\ LET info == mt_heap[mt_cpu[c].info]
       IN mt_cpu' = [mt_cpu EXCEPT ![c].at = "exec_store_count",
                                   ![c].reg = Add64(info.tb_dynamic_count,
                                                    info.n_insns)]
    /\ UNCHANGED <<mt_frame, phase, insns_executed, next_tbid, bb_file,
                   mt_heap, mt_table, mt_tbs, mt_done>>

\* vcpu_tb_exec, "info->tb_dynamic_count += info->n_insns": the store
mt_exec_store_count(c) ==
    /\ mt_cpu[c].at = "exec_store_count"
    /\ mt_heap' = [mt_heap EXCEPT ![mt_cpu[c].info].tb_dynamic_count =
                                      mt_cpu[c].reg]
    /\ mt_cpu' = [mt_cpu EXCEPT ![c].at = "exec_check"]
    /\ UNCHANGED <<mt_frame, phase, insns_executed, next_tbid, bb_file,
                   mt_table, mt_tbs, mt_done>>

\* vcpu_tb_exec, "if (insns_executed > insns_interval_length) { ... }"
mt_exec_check(c) ==
    /\ mt_cpu[c].at = "exec_check"
    /\ LET i == mt_cpu[c].info
       IN IF insns_executed > insns_interval_length
          THEN LET e2 == Sub64(insns_executed, insns_interval_length)
                   pre == [mt_heap EXCEPT ![i].tb_dynamic_count = Sub64(@, e2)]
                   h == mt_handle_interval_expiry(pre, mt_table, bb_file, bb_out)
               IN /\ insns_executed' = e2
                  /\ mt_heap' = [h.heap EXCEPT ![i].tb_dynamic_count = e2]
                  /\ bb_file' = h.file
          ELSE UNCHANGED <<insns_executed, mt_heap, bb_file>>
    /\ mt_cpu' = [mt_cpu EXCEPT ![c] = Idle]
    /\ UNCHANGED <<mt_frame, phase, next_tbid, mt_table, mt_tbs, mt_done>>

\* vcpu_tb_trans, g_hash_table_lookup
mt_trans_lookup(c, tb) ==
    /\ loaded = "bbv" /\ phase = "run"
    /\ mt_cpu[c].at = "idle"
    /\ mt_done.trans < MaxTrans
    /\ mt_cpu' = [mt_cpu EXCEPT ![c] =
                    IF tb.vaddr \in DOMAIN mt_table
                    THEN [Idle EXCEPT !.at = "trans_register",
                                      !.info = mt_table[tb.vaddr]]
                    ELSE [Idle EXCEPT !.at = "trans_new", !.tb = tb]]
    /\ mt_done' = [mt_done EXCEPT !.trans = @ + 1]
    /\ UNCHANGED <<mt_frame, phase, insns_executed, next_tbid, bb_file,
                   mt_heap, mt_table, mt_tbs>>

\* vcpu_tb_trans, g_new0 and "info->tbid = next_tbid++": the load of
\* next_tbid and the fields of the new record
mt_trans_new(c) ==
    /\ mt_cpu[c].at = "trans_new"
    /\ mt_heap' = Append(mt_heap, bbv_new_info(mt_cpu[c].tb, next_tbid))
    /\ mt_cpu' = [mt_cpu EXCEPT ![c].at = "trans_store_next",
                                ![c].info = Len(mt_heap) + 1,
                                ![c].reg = next_tbid]
    /\ UNCHANGED <<mt_frame, phase, insns_executed, next_tbid, bb_file,
                   mt_table, mt_tbs, mt_done>>

\* vcpu_tb_trans, "info->tbid = next_tbid++": the store to next_tbid
mt_trans_store_next(c) ==
    /\ mt_cpu[c].at = "trans_store_next"
    /\ next_tbid' = Add64(mt_cpu[c].reg, 1)
    /\ mt_cpu' = [mt_cpu EXCEPT ![c].at = "trans_insert"]
    /\ UNCHANGED <<mt_frame, phase, insns_executed, bb_file, mt_heap,
                   mt_table, mt_tbs, mt_done>>

\* vcpu_tb_trans, g_hash_table_insert: a key already there gets the new value
mt_trans_insert(c) ==
    /\ mt_cpu[c].at = "trans_insert"
    /\ LET pc == mt_cpu[c].tb.vaddr
       IN mt_table' = [q \in DOMAIN mt_table \cup {pc} |->
                         IF q = pc THEN mt_cpu[c].info ELSE mt_table[q]]
    /\ mt_cpu' = [mt_cpu EXCEPT ![c].at = "trans_register"]
    /\ UNCHANGED <<mt_frame, phase, insns_executed, next_tbid, bb_file,
                   mt_heap, mt_tbs, mt_done>>

\* vcpu_tb_trans, qemu_plugin_register_vcpu_tb_exec_cb with info as udata
mt_trans_register(c) ==
    /\ mt_cpu[c].at = "trans_register"
    /\ mt_tbs' = mt_tbs \cup {mt_cpu[c].info}
    /\ mt_cpu' = [mt_cpu EXCEPT ![c] = Idle]
    /\ UNCHANGED <<mt_frame, phase, insns_executed, next_tbid, bb_file,
                   mt_heap, mt_table, mt_done>>

\* plugin_exit, once every vCPU has left the callbacks (pc_out is not open)
mt_plugin_exit ==
    /\ loaded = "bbv" /\ phase = "run"
    /\ \A c \in CPUs : mt_cpu[c].at = "idle"
    /\ LET h == mt_handle_interval_expiry(mt_heap, mt_table, bb_file, bb_out)
       IN /\ mt_heap' = h.heap
          /\ bb_file' = h.file
    /\ phase' = "exit"
    /\ UNCHANGED <<mt_frame, insns_executed, next_tbid, mt_table, mt_tbs,
                   mt_cpu, mt_done>>

NextBBVMT ==
    \/ \E c \in CPUs : \E i \in mt_tbs : mt_exec_load_total(c, i)
    \/ \E c \in CPUs : mt_exec_store_total(c)
    \/ \E c \in CPUs : mt_exec_load_count(c)
    \/ \E c \in CPUs : mt_exec_store_count(c)
    \/ \E c \in CPUs : mt_exec_check(c)
    \/ \E c \in CPUs : \E tb \in TBs : mt_trans_lookup(c, tb)
    \/ \E c \in CPUs : mt_trans_new(c)
    \/ \E c \in CPUs : mt_trans_store_next(c)
    \/ \E c \in CPUs : mt_trans_insert(c)
    \/ \E c \in CPUs : mt_trans_register(c)
    \/ mt_plugin_exit

\* ---- linux-user/riscv: the memory consistency model prctl -------------------
\* calls made by one run
MaxCalls == 3

PR_MEMORY_CONSISTENCY_MODEL_RISCV_WMO == "WMO"
PR_MEMORY_CONSISTENCY_MODEL_RISCV_TSO == "TSO"
\* the values of arg2: the two models and a value that is neither
Arg2s == {PR_MEMORY_CONSISTENCY_MODEL_RISCV_WMO,
          PR_MEMORY_CONSISTENCY_MODEL_RISCV_TSO, "other"}
\* return values of do_prctl_set_memory_consistency_model
TARGET_EINVAL == "-TARGET_EINVAL"
Success == "0"

\* the state the plugins' variables are in while no plugin is loaded
NoPlugin ==
    /\ loaded = "none"
    /\ insns_interval_length = DefaultIntervalLength
    /\ bb_out = FALSE
    /\ pc_out = FALSE
    /\ Installed /\ NoMt

plugin_vars == <<loaded, phase, hb_vars, hb_again, bbv_cfg, bbv_vars, n_trans,
                 n_exec, tb_order, tb_changed, mt_vars>>

\* a process on a CPU of any configuration, DTSO not yet enabled
InitPrctl ==
    /\ NoPlugin
    /\ dtso_ena = FALSE
    /\ cpu_cfg \in [ext_ssdtso : BOOLEAN, ext_ztso : BOOLEAN]
    /\ prctl_log = <<>>

\* one entry of the history of calls
Call(fn, arg2, ret) == [fn |-> fn, arg2 |-> arg2, ret |-> ret]

\* -- the variant that only switches WMO -> TSO
\* mutant of set_one_way: without "if (!dtso_ena_new) return -TARGET_EINVAL"
set_one_way_both_ways(ena, cfg, arg2) ==
    LET dtso_ena_old == ena
        dtso_ena_new == (arg2 = PR_MEMORY_CONSISTENCY_MODEL_RISCV_TSO)
        has_dtso == cfg.ext_ssdtso
    IN IF arg2 \notin {PR_MEMORY_CONSISTENCY_MODEL_RISCV_WMO,
                       PR_MEMORY_CONSISTENCY_MODEL_RISCV_TSO}
       THEN [ret |-> TARGET_EINVAL, dtso_ena |-> ena]
       ELSE IF dtso_ena_old = dtso_ena_new
       THEN [ret |-> Success, dtso_ena |-> ena]
       ELSE IF dtso_ena_new /\ ~has_dtso
       THEN [ret |-> TARGET_EINVAL, dtso_ena |-> ena]
       ELSE [ret |-> Success, dtso_ena |-> dtso_ena_new]

\* do_prctl_set_memory_consistency_model: the return value and env->dtso_ena
set_one_way(ena, cfg, arg2) ==
    LET dtso_ena_old == ena
        dtso_ena_new == (arg2 = PR_MEMORY_CONSISTENCY_MODEL_RISCV_TSO)
        has_dtso == cfg.ext_ssdtso
    IN IF arg2 \notin {PR_MEMORY_CONSISTENCY_MODEL_RISCV_WMO,
                       PR_MEMORY_CONSISTENCY_MODEL_RISCV_TSO}
       THEN [ret |-> TARGET_EINVAL, dtso_ena |-> ena]
       ELSE IF dtso_ena_old = dtso_ena_new
       THEN [ret |-> Success, dtso_ena |-> ena]
       ELSE IF dtso_ena_new /\ ~has_dtso
       THEN [ret |-> TARGET_EINVAL, dtso_ena |-> ena]
       ELSE IF ~dtso_ena_new
       THEN [ret |-> TARGET_EINVAL, dtso_ena |-> ena]
       ELSE [ret |-> Success, dtso_ena |-> dtso_ena_new]

\* do_prctl_get_memory_consistency_model
get_one_way(ena, cfg) ==
    IF ena THEN PR_MEMORY_CONSISTENCY_MODEL_RISCV_TSO
    ELSE PR_MEMORY_CONSISTENCY_MODEL_RISCV_WMO

one_way_do_prctl_set_memory_consistency_model(arg2) ==
    /\ loaded = "none"
    /\ Len(prctl_log) < MaxCalls
    /\ LET r == set_one_way(dtso_ena, cpu_cfg, arg2)
       IN /\ dtso_ena' = r.dtso_ena
          /\ prctl_log' = Append(prctl_log, Call("set", arg2, r.ret))
    /\ UNCHANGED <<plugin_vars, cpu_cfg>>

one_way_do_prctl_get_memory_consistency_model ==
    /\ loaded = "none"
    /\ Len(prctl_log) < MaxCalls
    /\ prctl_log' = Append(prctl_log,
                           Call("get", NULL, get_one_way(dtso_ena, cpu_cfg)))
    /\ UNCHANGED <<plugin_vars, cpu_cfg, dtso_ena>>

NextPrctlOneWay ==
    \/ \E arg2 \in Arg2s : one_way_do_prctl_set_memory_consistency_model(arg2)
    \/ one_way_do_prctl_get_memory_consistency_model

\* -- the variant that switches both ways
\* do_prctl_set_memory_consistency_model: the return value and env->dtso_ena
set_toggle(ena, cfg, arg2) ==
    LET has_dtso == cfg.ext_ssdtso
    IN CASE arg2 = PR_MEMORY_CONSISTENCY_MODEL_RISCV_WMO ->
              [ret |-> Success, dtso_ena |-> IF has_dtso THEN FALSE ELSE ena]
         [] arg2 = PR_MEMORY_CONSISTENCY_MODEL_RISCV_TSO ->
              [ret |-> Success, dtso_ena |-> IF has_dtso THEN TRUE ELSE ena]
         [] OTHER -> [ret |-> TARGET_EINVAL, dtso_ena |-> ena]

\* do_prctl_get_memory_consistency_model
get_toggle(ena, cfg) ==
    LET has_tso == cfg.ext_ztso
        has_dtso == cfg.ext_ssdtso
    IN IF has_dtso /\ ena THEN PR_MEMORY_CONSISTENCY_MODEL_RISCV_TSO
       ELSE IF has_tso THEN PR_MEMORY_CONSISTENCY_MODEL_RISCV_TSO
       ELSE PR_MEMORY_CONSISTENCY_MODEL_RISCV_WMO

toggle_do_prctl_set_memory_consistency_model(arg2) ==
    /\ loaded = "none"
    /\ Len(prctl_log) < MaxCalls
    /\ LET r == set_toggle(dtso_ena, cpu_cfg, arg2)
       IN /\ dtso_ena' = r.dtso_ena
          /\ prctl_log' = Append(prctl_log, Call("set", arg2, r.ret))
    /\ UNCHANGED <<plugin_vars, cpu_cfg>>

toggle_do_prctl_get_memory_consistency_model ==
    /\ loaded = "none"
    /\ Len(prctl_log) < MaxCalls
    /\ prctl_log' = Append(prctl_log,
                           Call("get", NULL, get_toggle(dtso_ena, cpu_cfg)))
    /\ UNCHANGED <<plugin_vars, cpu_cfg, dtso_ena>>

NextPrctlToggle ==
    \/ \E arg2 \in Arg2s : toggle_do_prctl_set_memory_consistency_model(arg2)
    \/ toggle_do_prctl_get_memory_consistency_model

\* ---- specifications -----------------------------------------------------------
NextHB ==
    \/ \E tb \in TBs : hb_vcpu_tb_trans(tb)
    \/ \E pc \in PCs : hb_tb_exec(pc)
    \/ hb_plugin_exit

NextBBV ==
    \/ \E tb \in TBs : bbv_vcpu_tb_trans(tb)
    \/ \E pc \in PCs : bbv_vcpu_tb_exec(pc)
    \/ bbv_plugin_exit

Next == NextHB \/ NextBBV

\* qemu_plugin_install with the option interval-size=100
InitBBV100 ==
    /\ loaded = "bbv"
    /\ insns_interval_length = 100
    /\ bb_out \in BOOLEAN
    /\ pc_out \in BOOLEAN
    /\ Installed /\ NoPrctl /\ NoMt

\* translation blocks of 40 and of 60 instructions
TBs100 == [vaddr : PCs, n_insns : {40, 60}]

NextBBV100 ==
    \/ \E tb \in TBs100 : bbv_vcpu_tb_trans(tb)
    \/ \E pc \in PCs : bbv_vcpu_tb_exec(pc)
    \/ bbv_plugin_exit

\* a run of the hot-block plugin
SpecHB == InitHB /\ [][NextHB]_vars
\* a run of the BBV plugin
SpecBBV == InitBBV /\ [][NextBBV]_vars
\* a run of either plugin
Spec == Init /\ [][Next]_vars
\* a run of the BBV plugin installed with interval-size=100, over blocks of 40
\* and of 60 instructions
SpecBBV100 == InitBBV100 /\ [][NextBBV100]_vars
\* a run of the BBV plugin with the callbacks of several vCPUs interleaved
SpecBBVMT == InitBBVMT /\ [][NextBBVMT]_vars
\* prctl calls of a process, the switch being one-way
SpecPrctlOneWay == InitPrctl /\ [][NextPrctlOneWay]_vars
\* prctl calls of a process, the switch working both ways
SpecPrctlToggle == InitPrctl /\ [][NextPrctlToggle]_vars
\* the shutdown of the hot-block plugin, and the report made once more
SpecHBReport == InitHBReport /\ [][NextHBReport]_vars

\* ---- BBV plugin: accounting --------------------------------------------------
\* the sum of the counts of one 'T' line
LineSum(line) == SumSet(line)
\* the sum of the counts of every line written so far
EmittedTotal == SumSeq([i \in 1 .. Len(bb_file) |-> LineSum(bb_file[i])])
\* the sum of n_insns over every vcpu_tb_exec call so far
ExecutedTotal ==
    SumSeq([pc \in 1 .. NumPCs |->
              IF pc \in DOMAIN blocks THEN n_exec[pc] * blocks[pc].n_insns
              ELSE 0])
\* the count line i carries for the block id tbid (0 when it is not on the line)
CountOn(line, tbid) == SumSet({ p \in line : p[1] = tbid })
\* the sum of the counts emitted so far for the block at pc
EmittedFor(pc) ==
    SumSeq([i \in 1 .. Len(bb_file) |-> CountOn(bb_file[i], blocks[pc].tbid)])
\* the lines written by interval closes (the line of plugin_exit is the last
\* one once the plugin has exited)
ClosedLines ==
    1 .. (IF phase = "exit" THEN Len(bb_file) - 1 ELSE Len(bb_file))

\* C1: BBV plugin, output enabled, one vCPU: after plugin_exit the counts of
\* all 'T' lines, the final one included, add up to the number of executed
\* instructions (the sum of n_insns over every vcpu_tb_exec call).
C1_EmittedEqualsExecuted ==
    (loaded = "bbv" /\ bb_out /\ phase = "exit")
        => EmittedTotal = ExecutedTotal

\* C1 witness: a finished run with at least two lines, an interval close
\* among them, and a non-empty final line.
C1_Witness ==
    /\ loaded = "bbv" /\ bb_out /\ phase = "exit"
    /\ Len(bb_file) >= 2
    /\ bb_file[Len(bb_file)] # {}
    /\ ExecutedTotal >= 3

\* C2: every line written by an interval close (interval length L >= 1, any
\* n_insns) has counts that add up to exactly L, and no count on it has
\* wrapped below zero.
C2_ClosedLinesSumToInterval ==
    (loaded = "bbv" /\ bb_out /\ insns_interval_length >= 1)
        => \A i \in ClosedLines :
              /\ LineSum(bb_file[i]) = insns_interval_length
              /\ \A p \in bb_file[i] : p[2] >= 0

\* C3: an execution that brings the running total to exactly the interval
\* length closes the interval in that same callback: a line is written, and
\* afterwards the running total and every block's count are zero.
C3_ExactFillCloses ==
    [][\A pc \in PCs :
          (/\ loaded = "bbv" /\ bb_out /\ pc \in DOMAIN blocks
           /\ n_exec'[pc] = n_exec[pc] + 1
           /\ insns_executed + blocks[pc].n_insns = insns_interval_length)
          => (/\ Len(bb_file') = Len(bb_file) + 1
              /\ insns_executed' = 0
              /\ \A q \in DOMAIN blocks' : blocks'[q].tb_dynamic_count = 0)]_vars

\* for every block B: the counts emitted for B so far plus B.tb_dynamic_count
\* equal (executions of B) * B.n_insns
PerBlockAccounting ==
    \A pc \in DOMAIN blocks :
        EmittedFor(pc) + FmtLd(blocks[pc].tb_dynamic_count)
            = n_exec[pc] * blocks[pc].n_insns

\* C4 as stated: in every reachable state before shutdown the per-block
\* accounting equation holds, whatever the configuration.
C4_PerBlockAccountingAlways ==
    (loaded = "bbv" /\ phase = "run") => PerBlockAccounting

\* C4 amended: with the BBV output enabled (bb_out open) and one vCPU, in
\* every reachable state before shutdown the per-block accounting equation
\* holds.
C4_PerBlockAccounting ==
    (loaded = "bbv" /\ phase = "run" /\ bb_out) => PerBlockAccounting

\* C4 witness: before shutdown, output enabled, a block with counts on two
\* lines and a non-zero count still pending.
C4_Witness ==
    /\ loaded = "bbv" /\ phase = "run" /\ bb_out
    /\ \E pc \in DOMAIN blocks :
          /\ blocks[pc].tb_dynamic_count # 0
          /\ Cardinality({ i \in 1 .. Len(bb_file) :
                             CountOn(bb_file[i], blocks[pc].tbid) # 0 }) >= 2

\* ---- BBV plugin: block ids ------------------------------------------------------
\* C5: after any sequence of translations (one vCPU) the assigned tbid values
\* are exactly 0 .. k-1 for k distinct start addresses, handed out in order
\* of first translation, no two records share one, and a record's tbid never
\* changes once the record exists.
C5_TbidDenseStable ==
    /\ [](loaded = "bbv" =>
            /\ DOMAIN blocks = { tb_order[i] : i \in 1 .. Len(tb_order) }
            /\ Len(tb_order) = Cardinality(DOMAIN blocks)
            /\ \A i \in 1 .. Len(tb_order) : blocks[tb_order[i]].tbid = i - 1
            /\ { blocks[pc].tbid : pc \in DOMAIN blocks }
                   = 0 .. Cardinality(DOMAIN blocks) - 1
            /\ \A p, q \in DOMAIN blocks :
                   blocks[p].tbid = blocks[q].tbid => p = q)
    /\ [][\A pc \in DOMAIN blocks :
             pc \in DOMAIN blocks' /\ blocks'[pc].tbid = blocks[pc].tbid]_vars

\* C5 witness: two records whose first translations came in the opposite
\* order of their addresses.
C5_Witness ==
    /\ loaded = "bbv"
    /\ tb_order = <<2, 1>>
    /\ blocks[2].tbid = 0 /\ blocks[1].tbid = 1
    /\ next_tbid = 2

C7_ExecAtLeastTrans ==
    loaded = "hotblocks" =>
        \A pc \in DOMAIN hb_blocks :
            /\ hb_blocks[pc].exec_count >= hb_blocks[pc].trans_count
            /\ hb_blocks[pc].trans_count >= 1

\* C7 amended: every record satisfies trans_count >= 1; exec_count is 0
\* after the first translation and may stay below trans_count.
C7_TransAtLeastOne ==
    loaded = "hotblocks" =>
        \A pc \in DOMAIN hb_blocks :
            hb_blocks[pc].trans_count >= 1

\* C7 witness: a record translated twice and never executed.
C7_Witness ==
    /\ loaded = "hotblocks"
    /\ \E pc \in DOMAIN hb_blocks :
          hb_blocks[pc].trans_count = 2 /\ hb_blocks[pc].exec_count = 0

\* sum of exec_count * n_insns over all records of the store
HbDynamicTotal ==
    SumSeq([pc \in 1 .. NumPCs |->
              IF pc \in DOMAIN hb_blocks
              THEN hb_blocks[pc].exec_count * hb_blocks[pc].n_insns ELSE 0])

\* C8: the 'Dynamic instruction count' of the summary, which is also the
\* percentage denominator of every row of both sections, is the sum of
\* exec_count * n_insns over all records of the store.
C8_ReportTotal ==
    (loaded = "hotblocks" /\ phase = "exit")
        => /\ hb_report.dynamic_instruction_count = HbDynamicTotal
           /\ \A i \in 1 .. Len(hb_report.by_insns) :
                  hb_report.by_insns[i].pct_den = HbDynamicTotal
           /\ \A i \in 1 .. Len(hb_report.by_execs) :
                  hb_report.by_execs[i].pct_den = HbDynamicTotal

\* the rows list every record of the store exactly once
ListsStoreOnce(rows) ==
    /\ Len(rows) = Cardinality(DOMAIN hb_blocks)
    /\ { rows[i].start_addr : i \in 1 .. Len(rows) } = DOMAIN hb_blocks

\* C9: each of the two sorted sections lists every record of the store
\* exactly once, for every store of at least one record.
C9_SectionsComplete ==
    (loaded = "hotblocks" /\ phase = "exit" /\ DOMAIN hb_blocks # {})
        => /\ ListsStoreOnce(hb_report.by_insns)
           /\ ListsStoreOnce(hb_report.by_execs)

\* ---- BBV plugin: block symbol map -----------------------------------------------
\* C10: with pc_out enabled plugin_exit completes without a fault (the empty
\* store included) and writes exactly one 'F:' line per block, in strictly
\* ascending tbid order.
C10_SymbolMap ==
    (loaded = "bbv" /\ pc_out /\ phase = "exit")
        => /\ ~fault
           /\ Len(pc_file) = Cardinality(DOMAIN blocks)
           /\ { pc_file[i].tb_pc : i \in 1 .. Len(pc_file) } = DOMAIN blocks
           /\ \A i \in 1 .. Len(pc_file) - 1 :
                  pc_file[i].tbid < pc_file[i + 1].tbid

\* ---- hot-block plugin: zero total ------------------------------------------------
\* every row of both sections of the report
HbReportRows ==
    { hb_report.by_insns[i] : i \in 1 .. Len(hb_report.by_insns) }
        \cup { hb_report.by_execs[i] : i \in 1 .. Len(hb_report.by_execs) }

\* C12: when the total dynamic instruction count is zero at shutdown (empty
\* store, or blocks translated but never executed), the report divides by no
\* zero total: no row carries a percentage x/0, a summary without rows is
\* produced instead.
C12_ZeroTotalGuard ==
    (loaded = "hotblocks" /\ phase = "exit" /\ HbDynamicTotal = 0)
        => \A row \in HbReportRows : row.pct_den # 0

\* ---- BBV plugin: configuration -----------------------------------------------------
\* C13: an interval length of zero is rejected at install time, so that no
\* translation or execution callback ever runs with insns_interval_length = 0.
C13_ZeroIntervalRejected ==
    (loaded = "bbv" /\ insns_interval_length = 0)
        => TotalTrans = 0 /\ TotalExecs = 0

\* ---- BBV plugin: final flush --------------------------------------------------------
\* C16: at shutdown, with the bb file open and no fault, a final line is
\* written if and only if some block has a non-zero tb_dynamic_count; the line
\* holds exactly these blocks, and afterwards every count is 0.
C16_FinalFlushIff ==
    [][(loaded = "bbv" /\ phase = "run" /\ phase' = "exit" /\ bb_out /\ ~fault')
         => /\ Len(bb_file') > Len(bb_file)
                <=> \E pc \in DOMAIN blocks : blocks[pc].tb_dynamic_count # 0
            /\ Len(bb_file') > Len(bb_file)
                => bb_file'[Len(bb_file')] = bbv_line(blocks)
            /\ \A pc \in DOMAIN blocks' : blocks'[pc].tb_dynamic_count = 0]_vars

\* ---- hot-block plugin: ordering of the report ----------------------------------
\* the sort key of a row of the 'by dynamic instructions' section
KeyInsns(row) ==
    Mul64(hb_blocks[row.start_addr].exec_count, hb_blocks[row.start_addr].n_insns)
\* the sort key of a row of the 'by dynamic invocations' section
KeyExecs(row) == hb_blocks[row.start_addr].exec_count

\* C11: the rows of the 'by dynamic instructions' section are in non-increasing
\* order of exec_count * n_insns and the rows of the 'by dynamic invocations'
\* section in non-increasing order of exec_count, for every table, records of
\* equal keys included.
C11_ReportOrdering ==
    (loaded = "hotblocks" /\ phase = "exit")
        => /\ \A i, j \in 1 .. Len(hb_report.by_insns) :
                 i < j => KeyInsns(hb_report.by_insns[i])
                              >= KeyInsns(hb_report.by_insns[j])
           /\ \A i, j \in 1 .. Len(hb_report.by_execs) :
                 i < j => KeyExecs(hb_report.by_execs[i])
                              >= KeyExecs(hb_report.by_execs[j])

\* a report whose first section has two rows of equal non-zero key and whose
\* second section has two rows of different keys
C11_Witness ==
    /\ loaded = "hotblocks" /\ phase = "exit"
    /\ Len(hb_report.by_insns) >= 2
    /\ KeyInsns(hb_report.by_insns[1]) = KeyInsns(hb_report.by_insns[2])
    /\ KeyInsns(hb_report.by_insns[2]) > 0
    /\ KeyExecs(hb_report.by_execs[1]) > KeyExecs(hb_report.by_execs[2])

Straddles(pc) ==
    /\ loaded = "bbv" /\ bb_out /\ phase = "run" /\ phase' = "run"
    /\ pc \in DOMAIN blocks
    /\ n_exec'[pc] = n_exec[pc] + 1
    /\ \A q \in DOMAIN blocks : blocks[q].n_insns <= insns_interval_length
    /\ insns_executed + blocks[pc].n_insns > insns_interval_length

\* by how much the execution of the block at pc overshoots the boundary
Overshoot(pc) == insns_executed + blocks[pc].n_insns - insns_interval_length

\* the run of scenario A: one block of 40 instructions, executed three times,
\* then the shutdown, the interval being 100 instructions long
ScenarioA ==
    /\ loaded = "bbv" /\ bb_out /\ phase = "exit" /\ ~fault
    /\ insns_interval_length = 100
    /\ \E pc \in PCs :
          /\ DOMAIN blocks = {pc}
          /\ blocks[pc].n_insns = 40
          /\ n_exec[pc] = 3

\* C15: an execution of block B that takes the running total past L by
\* overshoot > 0 (no block longer than L) writes a line that credits B with its
\* accumulated count minus overshoot, and leaves B's count equal to overshoot
\* and to insns_executed and every other block's count at 0; with L = 100, one
\* block of 40 instructions executed three times gives a line crediting it with
\* 100 and a shutdown line crediting it with 20.
C15_StraddlingSplit ==
    [][/\ \A pc \in PCs :
            Straddles(pc)
              => /\ Len(bb_file') = Len(bb_file) + 1
                 /\ CountOn(bb_file'[Len(bb_file')], blocks[pc].tbid)
                       = blocks[pc].tb_dynamic_count + blocks[pc].n_insns
                           - Overshoot(pc)
                 /\ \A p \in bb_file'[Len(bb_file')] :
                       p[1] = blocks[pc].tbid
                         \/ \E q \in DOMAIN blocks :
                               /\ p[1] = blocks[q].tbid
                               /\ p[2] = blocks[q].tb_dynamic_count
                 /\ blocks'[pc].tb_dynamic_count = Overshoot(pc)
                 /\ insns_executed' = Overshoot(pc)
                 /\ \A q \in DOMAIN blocks' \ {pc} :
                       blocks'[q].tb_dynamic_count = 0
       /\ ScenarioA' => bb_file' = << {<<0, 100>>}, {<<0, 20>>} >>]_vars

\* scenario A has run to its end: the third execution straddled the boundary
C15_Witness ==
    /\ ScenarioA
    /\ Len(bb_file) = 2

\* ---- prctl: the one-way switch ---------------------------------------------------
\* the last call made
LastCall == prctl_log[Len(prctl_log)]

\* C19: over any sequence of set calls dtso_ena only goes from false to true,
\* and only on a CPU with ext_ssdtso; a request for WMO while TSO is enabled, a
\* request for TSO without ext_ssdtso and an unknown model value return -EINVAL
\* and leave dtso_ena as it was; a request for the model in effect returns 0
\* and changes nothing.
C19_OneWaySwitch ==
    [][/\ dtso_ena => dtso_ena'
       /\ dtso_ena' # dtso_ena => cpu_cfg.ext_ssdtso
       /\ \A arg2 \in Arg2s :
            (Len(prctl_log') = Len(prctl_log) + 1
               /\ LastCall'.fn = "set" /\ LastCall'.arg2 = arg2)
              => /\ (\/ arg2 = PR_MEMORY_CONSISTENCY_MODEL_RISCV_WMO /\ dtso_ena
                     \/ arg2 = PR_MEMORY_CONSISTENCY_MODEL_RISCV_TSO
                          /\ ~cpu_cfg.ext_ssdtso
                     \/ arg2 = "other")
                    => LastCall'.ret = TARGET_EINVAL /\ dtso_ena' = dtso_ena
                 /\ (\/ arg2 = PR_MEMORY_CONSISTENCY_MODEL_RISCV_WMO /\ ~dtso_ena
                     \/ arg2 = PR_MEMORY_CONSISTENCY_MODEL_RISCV_TSO /\ dtso_ena)
                    => LastCall'.ret = Success /\ dtso_ena' = dtso_ena]_vars

\* TSO was switched on, and WMO was then asked for and refused
C19_Witness ==
    /\ dtso_ena
    /\ Len(prctl_log) = 2
    /\ prctl_log[1] = Call("set", PR_MEMORY_CONSISTENCY_MODEL_RISCV_TSO, Success)
    /\ prctl_log[2] = Call("set", PR_MEMORY_CONSISTENCY_MODEL_RISCV_WMO,
                           TARGET_EINVAL)

\* ---- prctl: set, then get ----------------------------------------------------------
\* C20: whenever a set call for WMO or TSO returns 0, the get call that
\* follows it returns that model, for every CPU configuration.
C20_SetGetRoundTrip ==
    \A i \in 1 .. Len(prctl_log) - 1 :
        (/\ prctl_log[i].fn = "set"
         /\ prctl_log[i].ret = Success
         /\ prctl_log[i + 1].fn = "get")
          => prctl_log[i + 1].ret = prctl_log[i].arg2

\* ---- BBV plugin: several vCPUs ------------------------------------------------------
\* every start address got one record, and every record its own block id
OneRecordPerBlock ==
    \A i, j \in DOMAIN mt_heap :
        i # j => /\ mt_heap[i].tb_pc # mt_heap[j].tb_pc
                 /\ mt_heap[i].tbid # mt_heap[j].tbid

\* C14: for any interleaving of the vcpu_tb_exec callbacks of several vCPUs no
\* update is lost: after the final flush the emitted counts add up to the sum
\* of n_insns over all executions.
C14_NoLostUpdates ==
    (loaded = "bbv" /\ phase = "exit" /\ mt_cpu # Empty /\ OneRecordPerBlock)
        => EmittedTotal = mt_done.insns

\* C17: for any interleaving of the vcpu_tb_trans callbacks of several vCPUs,
\* each start address ends up with exactly one record, created once, and no
\* two records share a block id.
C17_StoreIntegrity ==
    (loaded = "bbv" /\ mt_cpu # Empty)
        => /\ OneRecordPerBlock
           /\ \A i \in DOMAIN mt_heap :
                 (\A c \in CPUs : mt_cpu[c].info # i \/ mt_cpu[c].at = "idle")
                    => mt_table[mt_heap[i].tb_pc] = i
====
